---- MODULE Spec2Model ----
(***************************************************************************)
(* A model of starred-repos (src/src/main.rs): one command-line invocation *)
(* after another against a cache directory that persists between them.     *)
(* Each function of main.rs is an operator computed as the code computes   *)
(* it; each step of main is an action.                                     *)
(***************************************************************************)
EXTENDS Naturals, Sequences, FiniteSets, TLC

\* ---------------------------------------------------------------- bounds
\* Largest star count of a modelled record.
MaxStars == 2
\* Longest record list handed to list_repos in ListSpec.
MaxRepos == 3

\* ---------------------------------------------------------------- values
\* Option<T>: None is the empty sequence, Some(x) the one-element sequence.
None == <<>>
Some(x) == <<x>>

\* Result<Vec<Repo>>.
Ok(repos) == [ok |-> TRUE, repos |-> repos, err |-> "none"]
Err(kind) == [ok |-> FALSE, repos |-> <<>>, err |-> kind]
NoResult == Err("unset")

\* struct Repo.
Repo(n, u, d, s) == [name |-> n, url |-> u, description |-> d, star_count |-> s]

\* JSON values of the wire format.
JStr(s) == <<"str", s>>
JNum(n) == <<"num", n>>
JNull == <<"null">>

\* Serialize for Repo: the serde renames of url and star_count.
RepoToWire(r) ==
    [name |-> JStr(r.name), html_url |-> JStr(r.url),
     description |-> JStr(r.description), stargazers_count |-> JNum(r.star_count)]

\* Deserialize for Repo: every field is required, String fields reject null,
\* unknown keys are ignored.
IsRepoObject(o) ==
    /\ {"name", "html_url", "description", "stargazers_count"} \subseteq DOMAIN o
    /\ o.name[1] = "str"
    /\ o.html_url[1] = "str"
    /\ o.description[1] = "str"
    /\ o.stargazers_count[1] = "num"

RepoFromWire(o) ==
    Repo(o.name[2], o.html_url[2], o.description[2], o.stargazers_count[2])

\* serde_json::to_string(&repos): a JSON array, one object per record, in order.
JsonToString(repos) == [i \in 1..Len(repos) |-> RepoToWire(repos[i])]

\* serde_json::from_str::<Vec<Repo>>(text) followed by `?`.
FromJsonStr(text) ==
    IF \A i \in 1..Len(text) : IsRepoObject(text[i])
    THEN Ok([i \in 1..Len(text) |-> RepoFromWire(text[i])])
    ELSE Err("Deserialize")

\* toml::to_string(&repos) of a Vec: a TOML document is a table at its root, so
\* a bare array has no TOML form. Depending on the toml crate's version the call
\* returns Err, or Ok with an array-of-tables under an empty header ("[[]]").
TomlToString(repos) ==
    { [ok |-> FALSE, text |-> [header |-> "", tables |-> <<>>]],
      [ok |-> TRUE, text |-> [header |-> "", tables |-> JsonToString(repos)]] }

\* ---------------------------------------------------------------- inputs
\* User names given to --user. "./a" names the same cache file as "a"; with ""
\* the path "cache/" names the directory itself.
Users == {"a", "b", "./a", ""}
FileKeys == {"a", "b"}

\* The file that format!("cache/{}", user) denotes, if it can denote a file.
FsFile(user) ==
    CASE user = "a" -> Some("a")
      [] user = "./a" -> Some("a")
      [] user = "b" -> Some("b")
      [] OTHER -> None

\* Response bodies.
Body1 == JsonToString(<<Repo("r1", "u1", "d", 0), Repo("r2", "u2", "d", MaxStars)>>)
Body2 == JsonToString(<<Repo("r2", "u2", "d", 1)>>)
\* A repository without a description: "description": null.
BadBody ==
    << [name |-> JStr("r1"), html_url |-> JStr("u1"),
        description |-> JNull, stargazers_count |-> JNum(1)] >>
\* The body of an error response.
ErrorBody == << [message |-> JStr("Not Found")] >>

SuccessBodies == {Body1, Body2, BadBody}

\* What the network can answer: send() fails (sent = FALSE), or a response
\* arrives with a success or an error status, whose text() fails (None) or
\* yields the body.
Responses ==
    { [sent |-> FALSE, success |-> FALSE, text |-> None],
      [sent |-> TRUE, success |-> FALSE, text |-> Some(ErrorBody)],
      [sent |-> TRUE, success |-> TRUE, text |-> None] }
    \cup { [sent |-> TRUE, success |-> TRUE, text |-> Some(b)] : b \in SuccessBodies }

\* The command line.
ArgSets ==
    [user : {None} \cup {Some(u) : u \in Users},
     clear : BOOLEAN, json : BOOLEAN, toml : BOOLEAN]

\* ---------------------------------------------------------------- cache store
EmptyCache == [dir |-> FALSE, files |-> [f \in FileKeys |-> None]]

\* fs::read_to_string(format!("cache/{}", user)) mapped to Option.
GetCache(c, user) ==
    IF c.dir /\ FsFile(user) # None THEN c.files[FsFile(user)[1]] ELSE None

\* A write_cache that ignores the user name and always writes cache/a.
WriteCacheOneFile(c, user, body, mkFault, wrFault) ==
    LET needDir == ~c.dir
        mkOk == needDir /\ ~mkFault
        c1 == IF mkOk THEN [c EXCEPT !.dir = TRUE] ELSE c
        wrOk == c1.dir /\ ~wrFault
        c2 == IF wrOk THEN [c1 EXCEPT !.files["a"] = Some(body)] ELSE c1
    IN [cache |-> c2, ok |-> wrOk,
        printed |-> (IF needDir /\ ~mkOk THEN {"Error creating cache"} ELSE {})
                    \cup (IF wrOk THEN {} ELSE {"Error writing to cache"})]

\* write_cache(user, response); mkFault and wrFault are I/O errors of
\* fs::create_dir and fs::write.
WriteCache(c, user, body, mkFault, wrFault) ==
    LET needDir == ~c.dir
        mkOk == needDir /\ ~mkFault
        c1 == IF mkOk THEN [c EXCEPT !.dir = TRUE] ELSE c
        f == FsFile(user)
        wrOk == c1.dir /\ f # None /\ ~wrFault
        c2 == IF wrOk THEN [c1 EXCEPT !.files[f[1]] = Some(body)] ELSE c1
    IN [cache |-> c2, ok |-> wrOk,
        printed |-> (IF needDir /\ ~mkOk THEN {"Error creating cache"} ELSE {})
                    \cup (IF wrOk THEN {} ELSE {"Error writing to cache"})]

\* A clear that reports success and removes nothing.
RemoveNothing(c, fault, kept) == [cache |-> c, ok |-> c.dir]

\* fs::remove_dir_all("cache"): NotFound without the directory; with an I/O
\* error (fault) the directory stays, with the files of `kept` still in it.
RemoveDirAll(c, fault, kept) ==
    IF ~c.dir THEN [cache |-> c, ok |-> FALSE]
    ELSE IF fault
    THEN [cache |-> [c EXCEPT !.files =
                        [f \in FileKeys |-> IF f \in kept THEN c.files[f] ELSE None]],
          ok |-> FALSE]
    ELSE [cache |-> EmptyCache, ok |-> TRUE]

\* ---------------------------------------------------------------- repo fetcher
GetOutcome(res, src, called, rsp, c, wr, pr) ==
    [result |-> res, source |-> src, netCalled |-> called, resp |-> rsp,
     cache |-> c, wrote |-> wr, printed |-> pr]

\* A fetch that treats a failed cache write as an error of the fetch.
AfterStatusWriteFatal(c, user, rsp, mkFault, wrFault) ==
    IF rsp.text = None
    THEN GetOutcome(Err("Body"), "fetch", TRUE, Some(rsp), c, None, {})
    ELSE LET body == rsp.text[1]
             w == WriteCache(c, user, body, mkFault, wrFault)
         IN GetOutcome(IF w.ok THEN FromJsonStr(body) ELSE Err("Cache"),
                       "fetch", TRUE, Some(rsp), w.cache,
                       Some([user |-> user, body |-> body, ok |-> w.ok]),
                       w.printed)

\* A fetch that deserializes first and caches only what deserialized.
AfterStatusParseFirst(c, user, rsp, mkFault, wrFault) ==
    IF rsp.text = None
    THEN GetOutcome(Err("Body"), "fetch", TRUE, Some(rsp), c, None, {})
    ELSE LET body == rsp.text[1]
             w == WriteCache(c, user, body, mkFault, wrFault)
         IN IF FromJsonStr(body).ok
            THEN GetOutcome(FromJsonStr(body), "fetch", TRUE, Some(rsp), w.cache,
                            Some([user |-> user, body |-> body, ok |-> w.ok]),
                            w.printed)
            ELSE GetOutcome(Err("Deserialize"), "fetch", TRUE, Some(rsp), c, None, {})

\* Lines 108-112: res.text()?, write_cache(user, &response_text), then
\* serde_json::from_str(&response_text)?.
AfterStatus(c, user, rsp, mkFault, wrFault) ==
    IF rsp.text = None
    THEN GetOutcome(Err("Body"), "fetch", TRUE, Some(rsp), c, None, {})
    ELSE LET body == rsp.text[1]
             w == WriteCache(c, user, body, mkFault, wrFault)
         IN GetOutcome(FromJsonStr(body), "fetch", TRUE, Some(rsp), w.cache,
                       Some([user |-> user, body |-> body, ok |-> w.ok]),
                       w.printed)

\* A request that skips the status check.
SendRequestNoEnsure(c, user, rsp, mkFault, wrFault) ==
    IF ~rsp.sent
    THEN GetOutcome(Err("Connect"), "fetch", TRUE, Some(rsp), c, None, {})
    ELSE AfterStatus(c, user, rsp, mkFault, wrFault)

\* Lines 93-106: req.send().context(..)?, then ensure!(res.status().is_success()).
SendRequest(c, user, rsp, mkFault, wrFault) ==
    IF ~rsp.sent
    THEN GetOutcome(Err("Connect"), "fetch", TRUE, Some(rsp), c, None, {})
    ELSE IF ~rsp.success
    THEN GetOutcome(Err("Status"), "fetch", TRUE, Some(rsp), c, None, {})
    ELSE AfterStatus(c, user, rsp, mkFault, wrFault)

\* A fetch that looks for the token only after the request went out.
FetchSendFirst(c, user, tok, rsp, mkFault, wrFault) ==
    IF ~tok
    THEN GetOutcome(Err("MissingCredential"), "fetch", TRUE, Some(rsp), c, None, {})
    ELSE SendRequest(c, user, rsp, mkFault, wrFault)

\* get_starred_repos_for_user after the cache miss (lines 87-112): the token
\* is read from the environment before the request is built and sent.
Fetch(c, user, tok, rsp, mkFault, wrFault) ==
    IF ~tok
    THEN GetOutcome(Err("MissingCredential"), "fetch", FALSE, None, c, None, {})
    ELSE SendRequest(c, user, rsp, mkFault, wrFault)

\* A get that never looks at the cache.
GetAlwaysFetch(c, user, tok, rsp, mkFault, wrFault) ==
    Fetch(c, user, tok, rsp, mkFault, wrFault)

\* get_starred_repos_for_user.
GetStarredReposForUser(c, user, tok, rsp, mkFault, wrFault) ==
    LET cached == GetCache(c, user)
    IN IF cached # None
       THEN GetOutcome(FromJsonStr(cached[1]), "cache", FALSE, None, c, None, {})
       ELSE Fetch(c, user, tok, rsp, mkFault, wrFault)

\* ---------------------------------------------------------------- formatter
\* Ord::cmp on u64.
OrdCmp(x, y) == IF x < y THEN "Less" ELSE IF x = y THEN "Equal" ELSE "Greater"

\* The comparator with its arguments the other way round: ascending.
StarCmpAscending(a, b) == OrdCmp(a.star_count, b.star_count)

\* The comparator of list_repos: |a, b| Ord::cmp(&b.star_count, &a.star_count).
StarCmp(a, b) == OrdCmp(b.star_count, a.star_count)

\* Vec::sort_by is stable: x goes behind every element that does not compare
\* Greater than it.
InsertSorted(s, x) ==
    LET keep == {i \in 1..Len(s) : StarCmp(s[i], x) # "Greater"}
        k == Cardinality(keep)
    IN SubSeq(s, 1, k) \o <<x>> \o SubSeq(s, k + 1, Len(s))

RECURSIVE SortedBy(_)
SortedBy(s) ==
    IF s = <<>> THEN <<>>
    ELSE InsertSorted(SortedBy(SubSeq(s, 1, Len(s) - 1)), s[Len(s)])

\* list_repos: the records in the order they are printed.
ListRepos(repos) == SortedBy(repos)

\* ---------------------------------------------------------------- state
VARIABLES
    pc,             \* position in main: idle, start, match, out, done
    args,           \* the parsed command line
    token,          \* whether GITHUB_ACCESS is set
    cache,          \* the cache directory on disk
    cachedAtStart,  \* the users that had a cache entry when the invocation began
    source,         \* which branch get took: none, cache, fetch
    netCalled,      \* req.send() was called in this invocation
    resp,           \* what the network answered, if asked
    result,         \* what get_starred_repos_for_user returned
    wrote,          \* the write_cache call of this invocation, if any
    clearRes,       \* clear_cache of this invocation: none, ok, err
    listed,         \* the records printed by list_repos, if it ran
    tomlAttempt,    \* toml::to_string was called
    jsonAttempt,    \* serde_json::to_string was called
    tomlFile,       \* what this invocation wrote to the --toml path
    jsonFile,       \* what this invocation wrote to the --json path
    printed         \* the messages printed

vars ==
    <<pc, args, token, cache, cachedAtStart, source, netCalled, resp, result,
      wrote, clearRes, listed, tomlAttempt, jsonAttempt, tomlFile, jsonFile,
      printed>>

NoArgs == [user |-> None, clear |-> FALSE, json |-> FALSE, toml |-> FALSE]

Fresh ==
    /\ source = "none"
    /\ netCalled = FALSE
    /\ resp = None
    /\ result = NoResult
    /\ wrote = None
    /\ clearRes = "none"
    /\ listed = None
    /\ tomlAttempt = FALSE
    /\ jsonAttempt = FALSE
    /\ tomlFile = None
    /\ jsonFile = None
    /\ printed = {}

Init ==
    /\ pc = "idle"
    /\ args = NoArgs
    /\ token = FALSE
    /\ cache = EmptyCache
    /\ cachedAtStart = {}
    /\ Fresh

\* ---------------------------------------------------------------- main
\* A new invocation: the command line and the environment are read.
Invoke ==
    /\ pc = "idle"
    /\ \E a \in ArgSets, t \in BOOLEAN :
          /\ args' = a
          /\ token' = t
    /\ cachedAtStart' = {u \in Users : GetCache(cache, u) # None}
    /\ pc' = "start"
    /\ UNCHANGED <<cache, source, netCalled, resp, result, wrote, clearRes, listed,
                   tomlAttempt, jsonAttempt, tomlFile, jsonFile, printed>>

\* if args.is_present("CLEAR") { clear_cache(); }
MainClear ==
    /\ pc = "start"
    /\ args.clear
    /\ \E fault \in BOOLEAN, kept \in SUBSET FileKeys :
          LET r == RemoveDirAll(cache, fault, kept)
          IN /\ cache' = r.cache
             /\ clearRes' = IF r.ok THEN "ok" ELSE "err"
             /\ printed' = IF r.ok THEN printed
                            ELSE printed \cup {"Failed clearing cache"}
    /\ pc' = "match"
    /\ UNCHANGED <<args, token, cachedAtStart, source, netCalled, resp, result,
                   wrote, listed, tomlAttempt, jsonAttempt, tomlFile, jsonFile>>

MainNoClear ==
    /\ pc = "start"
    /\ ~args.clear
    /\ pc' = "match"
    /\ UNCHANGED <<args, token, cache, cachedAtStart, source, netCalled, resp,
                   result, wrote, clearRes, listed, tomlAttempt, jsonAttempt,
                   tomlFile, jsonFile, printed>>

\* None => println!("No user was specified")
MainNoUser ==
    /\ pc = "match"
    /\ args.user = None
    /\ printed' = printed \cup {"No user was specified"}
    /\ pc' = "done"
    /\ UNCHANGED <<args, token, cache, cachedAtStart, source, netCalled, resp,
                   result, wrote, clearRes, listed, tomlAttempt, jsonAttempt,
                   tomlFile, jsonFile>>

\* Some(user) => match get_starred_repos_for_user(&user)
MainGet ==
    /\ pc = "match"
    /\ args.user # None
    /\ \E rsp \in Responses, mkFault \in BOOLEAN, wrFault \in BOOLEAN :
          LET o == GetStarredReposForUser(cache, args.user[1], token, rsp,
                                          mkFault, wrFault)
          IN /\ result' = o.result
             /\ source' = o.source
             /\ netCalled' = o.netCalled
             /\ resp' = o.resp
             /\ cache' = o.cache
             /\ wrote' = o.wrote
             /\ printed' = printed \cup o.printed
    /\ pc' = "out"
    /\ UNCHANGED <<args, token, cachedAtStart, clearRes, listed, tomlAttempt,
                   jsonAttempt, tomlFile, jsonFile>>

\* Err(err) => println!("ERROR: {:?}", err)
MainErr ==
    /\ pc = "out"
    /\ ~result.ok
    /\ printed' = printed \cup {"ERROR"}
    /\ pc' = "done"
    /\ UNCHANGED <<args, token, cache, cachedAtStart, source, netCalled, resp,
                   result, wrote, clearRes, listed, tomlAttempt, jsonAttempt,
                   tomlFile, jsonFile>>

\* The TOML branch of the export: the file written and the messages printed.
ExportToml(repos, doc, fault) ==
    IF ~doc.ok THEN [file |-> None, printed |-> {"Failed serializing toml"}]
    ELSE IF fault THEN [file |-> None, printed |-> {"Writing to toml failed"}]
    ELSE [file |-> Some(doc.text), printed |-> {}]

\* The JSON branch of the export; serde_json::to_string of these records
\* cannot fail.
ExportJson(repos, fault) ==
    IF fault THEN [file |-> None, printed |-> {"Writing to json failed"}]
    ELSE [file |-> Some(JsonToString(repos)), printed |-> {}]

NoExport == [file |-> None, printed |-> {}]

\* Ok(repos) with --json or --toml: the TOML file first, then the JSON file.
MainExport ==
    /\ pc = "out"
    /\ result.ok
    /\ args.json \/ args.toml
    /\ \E doc \in TomlToString(result.repos), tFault \in BOOLEAN, jFault \in BOOLEAN :
          LET t == IF args.toml THEN ExportToml(result.repos, doc, tFault) ELSE NoExport
              j == IF args.json THEN ExportJson(result.repos, jFault) ELSE NoExport
          IN /\ tomlAttempt' = args.toml
             /\ tomlFile' = t.file
             /\ jsonAttempt' = args.json
             /\ jsonFile' = j.file
             /\ printed' = printed \cup t.printed \cup j.printed
    /\ pc' = "done"
    /\ UNCHANGED <<args, token, cache, cachedAtStart, source, netCalled, resp,
                   result, wrote, clearRes, listed>>

\* A listing that is printed whatever the export flags say.
MainListAlways ==
    /\ pc = "out"
    /\ result.ok
    /\ listed' = Some(ListRepos(result.repos))
    /\ pc' = "done"
    /\ UNCHANGED <<args, token, cache, cachedAtStart, source, netCalled, resp,
                   result, wrote, clearRes, tomlAttempt, jsonAttempt, tomlFile,
                   jsonFile, printed>>

\* Ok(repos) without --json and --toml: list_repos(&repos).
MainList ==
    /\ pc = "out"
    /\ result.ok
    /\ ~(args.json \/ args.toml)
    /\ listed' = Some(ListRepos(result.repos))
    /\ pc' = "done"
    /\ UNCHANGED <<args, token, cache, cachedAtStart, source, netCalled, resp,
                   result, wrote, clearRes, tomlAttempt, jsonAttempt, tomlFile,
                   jsonFile, printed>>

\* The process ends; what it observed is forgotten.
Exit ==
    /\ pc = "done"
    /\ pc' = "idle"
    /\ source' = "none"
    /\ netCalled' = FALSE
    /\ resp' = None
    /\ result' = NoResult
    /\ wrote' = None
    /\ clearRes' = "none"
    /\ listed' = None
    /\ tomlAttempt' = FALSE
    /\ jsonAttempt' = FALSE
    /\ tomlFile' = None
    /\ jsonFile' = None
    /\ printed' = {}
    /\ UNCHANGED <<args, token, cache, cachedAtStart>>

Next ==
    \/ Invoke
    \/ MainClear
    \/ MainNoClear
    \/ MainNoUser
    \/ MainGet
    \/ MainErr
    \/ MainExport
    \/ MainList
    \/ Exit

Spec == Init /\ [][Next]_vars

\* ---------------------------------------------------------------- list_repos alone
\* The records list_repos is checked on: every list of at most MaxRepos records.
RepoNames == {"r1", "r2"}
RepoSet == {Repo(n, "u", "d", s) : n \in RepoNames, s \in 0..MaxStars}
RepoLists == UNION {[1..n -> RepoSet] : n \in 0..MaxRepos}

ListInit ==
    /\ pc = "out"
    /\ args = [NoArgs EXCEPT !.user = Some("a")]
    /\ token = TRUE
    /\ cache = EmptyCache
    /\ cachedAtStart = {}
    /\ source = "fetch"
    /\ netCalled = TRUE
    /\ resp = None
    /\ \E r \in RepoLists : result = Ok(r)
    /\ wrote = None
    /\ clearRes = "none"
    /\ listed = None
    /\ tomlAttempt = FALSE
    /\ jsonAttempt = FALSE
    /\ tomlFile = None
    /\ jsonFile = None
    /\ printed = {}

ListNext == MainList

ListSpec == ListInit /\ [][ListNext]_vars

\* ---------------------------------------------------------------- properties
\* The cache holds a file for the user, read off the disk state directly.
HasEntry(c, u) == c.dir /\ FsFile(u) # None /\ c.files[FsFile(u)[1]] # None

\* The step of main that calls get_starred_repos_for_user.
GetStep == pc = "match" /\ pc' = "out"
\* The step of main that calls clear_cache.
ClearStep == pc = "start" /\ args.clear /\ pc' = "match"
\* The get has returned in this invocation.
AfterGet == pc \in {"out", "done"} /\ source # "none"

\* C1: get(user) sends a network request only if no cache file exists for the
\* user; with a cache file the result is the deserialized cached body (Ok or
\* Err) and nothing is sent; without one the fetch path is entered.
C1_CacheDecidesNetwork ==
    [][GetStep =>
         LET u == args.user[1]
         IN /\ netCalled' => ~HasEntry(cache, u)
            /\ HasEntry(cache, u) =>
                 /\ ~netCalled'
                 /\ source' = "cache"
                 /\ result' = FromJsonStr(cache.files[FsFile(u)[1]][1])
            /\ ~HasEntry(cache, u) => source' = "fetch"]_vars

C1_Witness == pc = "out" /\ source = "cache" /\ ~netCalled /\ result.ok

\* C2 as stated: with the credential missing, get(user) fails with the
\* missing-credential error and sends nothing, whatever the cache holds.
C2_Original ==
    (AfterGet /\ ~token) => (result = Err("MissingCredential") /\ ~netCalled)

\* C2 amended: with the credential missing, get(user) sends no network request
\* in any cache state, and it fails with the missing-credential error when no
\* cache file exists for the user.
C2_MissingTokenNoNetwork ==
    [][(GetStep /\ ~token) =>
         /\ ~netCalled'
         /\ ~HasEntry(cache, args.user[1]) => result' = Err("MissingCredential")]_vars

C2_Witness ==
    pc = "out" /\ ~token /\ result = Err("MissingCredential") /\ ~netCalled

IsStableDescendingSort(out, in) ==
    /\ Len(out) = Len(in)
    /\ \E p \in [1..Len(in) -> 1..Len(in)] :
         /\ \A i, j \in 1..Len(in) : i # j => p[i] # p[j]
         /\ \A i \in 1..Len(in) : out[i] = in[p[i]]
         /\ \A i, j \in 1..Len(in) :
              i < j => \/ out[i].star_count > out[j].star_count
                       \/ (out[i].star_count = out[j].star_count /\ p[i] < p[j])

\* C5: list_repos prints a permutation of its input ordered by star_count
\* descending, records with equal star_count in their original order, nothing
\* dropped or duplicated, and the input is left as it was.
C5_ListStableDescending ==
    /\ [](listed # None => IsStableDescendingSort(listed[1], result.repos))
    /\ [][(pc = "out" /\ listed' # None) => result' = result]_vars

C5_Witness ==
    /\ listed # None
    /\ listed[1] # result.repos
    /\ \E i, j \in 1..Len(result.repos) :
         /\ i < j
         /\ result.repos[i].star_count = result.repos[j].star_count
         /\ result.repos[i] # result.repos[j]

\* Reading a TOML file back as Vec<Repo>: the empty header is a syntax error,
\* and the root of any well-formed document is a table, never a sequence.
TomlFromStr(text) == Err("Deserialize")

\* C6: each requested export whose file write did not fail leaves a file that
\* deserializes back into the fetched records, in fetch order.
C6_ExportsRoundTrip ==
    (pc = "done" /\ result.ok) =>
        /\ (args.json /\ "Writing to json failed" \notin printed) =>
             (jsonFile # None /\ FromJsonStr(jsonFile[1]) = Ok(result.repos))
        /\ (args.toml /\ "Writing to toml failed" \notin printed) =>
             (tomlFile # None /\ TomlFromStr(tomlFile[1]) = Ok(result.repos))

\* C7: on a cache miss, get returns Ok only if the request was sent, the status
\* was success and the body deserialized; a request that cannot be sent gives a
\* connection error, a non-success status a status error, and in both cases the
\* cache is left as it was.
C7_FetchFailures ==
    [][(GetStep /\ ~HasEntry(cache, args.user[1])) =>
         /\ result'.ok =>
              /\ netCalled'
              /\ resp' # None
              /\ resp'[1].sent
              /\ resp'[1].success
              /\ resp'[1].text # None
              /\ FromJsonStr(resp'[1].text[1]) = result'
         /\ (netCalled' /\ ~resp'[1].sent) =>
              (result' = Err("Connect") /\ cache' = cache)
         /\ (netCalled' /\ resp'[1].sent /\ ~resp'[1].success) =>
              (result' = Err("Status") /\ cache' = cache)]_vars

C7_Witness ==
    /\ pc = "out"
    /\ netCalled
    /\ resp[1].sent
    /\ ~resp[1].success
    /\ result = Err("Status")

NothingExported ==
    ~tomlAttempt /\ ~jsonAttempt /\ tomlFile = None /\ jsonFile = None

\* C10: the output of one invocation. Without a user: no cache read, no network
\* call, no listing, no export, and the 'No user was specified' message. After a
\* failed get: nothing listed or exported. After a successful get with --json or
\* --toml: no listing, and every requested export attempted. After a successful
\* get with neither: the listing and no file. Never a listing and an export.
C10_OutputDispatch ==
    /\ ~(listed # None /\ ~NothingExported)
    /\ pc = "done" =>
         /\ args.user = None =>
              /\ source = "none"
              /\ ~netCalled
              /\ result = NoResult
              /\ listed = None
              /\ NothingExported
              /\ "No user was specified" \in printed
         /\ (args.user # None /\ ~result.ok) => (listed = None /\ NothingExported)
         /\ (result.ok /\ (args.json \/ args.toml)) =>
              /\ listed = None
              /\ tomlAttempt = args.toml
              /\ jsonAttempt = args.json
         /\ (result.ok /\ ~args.json /\ ~args.toml) =>
              (listed # None /\ NothingExported)

C10_Witness ==
    /\ pc = "done"
    /\ result.ok
    /\ args.json
    /\ args.toml
    /\ listed = None
    /\ jsonFile # None
    /\ "Writing to toml failed" \in printed

====
